---- MODULE Spec2Model ----
(***************************************************************************)
(* The interpolated search of ab-av1: command/bitrate_search.rs (u32         *)
(* bitrate, Transform::Linear) and command/cq_search.rs (f32 constant        *)
(* quality, Transform::Sqrt).  Both `run` functions are the same loop; the   *)
(* field args.search says which of the two files a behaviour is a run of.    *)
(*                                                                           *)
(* Numbers.  q (f64) is kept in fixed point: an integer number of 1/QScale.  *)
(* VMAF scores (f32) are integers in hundredths (95.0 is 9500); encode       *)
(* percentages are integer percents.  Trial values (val) are integers: the   *)
(* u32 of the bitrate search, and the f32 of the cq search restricted to     *)
(* whole numbers.                                                            *)
(***************************************************************************)
EXTENDS Integers, Sequences, FiniteSets, TLC

VARIABLES args, oracle, pc, run, sample, br_attempts, result, tasks, bar

vars == <<args, oracle, pc, run, sample, br_attempts, result, tasks, bar>>

(* ------------------------------ bounds --------------------------------- *)
\* largest configurable --max-br of the model; --max-cq, whose q is its
\* square, goes up to half of it
MaxValue == 6

\* the configurable --min-br / --min-cq and increments of the model
\* (increment 0 is coerced to 1 by the bitrate search)
MinValues == {1, 2}
IncValues == {0, 1, 2}

(* --------------------------- program constants -------------------------- *)
\* q is an f64: kept in fixed point, QScale units per 1.0; halves hold the
\* midpoint of two whole bounds exactly, the interpolation rounds to them
QScale == 2
\* sample_bar.length().unwrap_or(1).max(1)
SampleBarLen == 1
BAR_LEN == 1000000000
\* default of --min-vmaf, 95.0, in hundredths
DefaultMinVmaf == 9500
\* default of --max-encoded-percent, 80.0
DefaultMaxEncodedPercent == 80
\* thorough tolerance 0.05, in hundredths
ThoroughTolerance == 5

None == -1

\* the scores and size percentages the oracle may report
VmafSeq == <<9300, 9500, 9503, 9530, 9990>>
VmafValues == {VmafSeq[i] : i \in DOMAIN VmafSeq}
PercentValues == {80, 95}

Max(a, b) == IF a >= b THEN a ELSE b
Min(a, b) == IF a <= b THEN a ELSE b

(* ------------------------------ Transform ------------------------------ *)
\* f64: e^x is finite up to x = 709 (e^709.78 is f64::MAX), above it exp
\* returns +infinity
ExpMax == 709
\* f64::INFINITY as a value in q units: above every q of the model
Infinity == 2147483647

\* f64::exp on a whole value: e^x is kept as the term [x |-> x], which ln
\* takes back to x, with the flag of a finite result
exp(x) == [finite |-> x <= ExpMax, x |-> x]

\* f64::ln of a result of exp; ln(+infinity) is +infinity.  On whole x up to
\* 709 the f64 ln(exp(x)) is x itself; the result is in q units
ln(y) == IF y.finite THEN y.x * QScale ELSE Infinity

\* TransformValue::calc on a whole value, result in q units
calc(transform, val) ==
    CASE transform = "Linear" -> val * QScale
      [] transform = "Sqrt"   -> val * val * QScale
      [] transform = "Ln"     -> exp(val)

\* the largest n in lo..hi with n * n <= X
RECURSIVE sqrt_floor(_, _, _)
sqrt_floor(lo, hi, X) ==
    IF lo >= hi THEN lo
    ELSE LET mid == (lo + hi + 1) \div 2
         IN  IF mid <= X \div mid THEN sqrt_floor(mid, hi, X)
             ELSE sqrt_floor(lo, mid - 1, X)

\* TransformValue::inverse of a q, result in q units too (the f64 value times
\* QScale, rounded down)
inverse(transform, Q) ==
    CASE transform = "Linear" -> Q
      [] transform = "Sqrt"   -> sqrt_floor(0, Q * QScale, Q * QScale)
      [] transform = "Ln"     -> ln(Q)

\* round(sqrt(Q / QScale) / inc): half away from zero
RECURSIVE round_sqrt_div(_, _, _)
round_sqrt_div(n, Q, inc) ==
    IF (2 * n + 1) * (2 * n + 1) * inc * inc * QScale <= 4 * Q
    THEN round_sqrt_div(n + 1, Q, inc)
    ELSE n

(* ------------------------------- Sample -------------------------------- *)
\* mutant of num_from_q_br: the value is not quantized to the increment
num_from_q_br_unquantized(Q, inc) == (Max(Q, 0)) \div QScale

\* bitrate_search.rs: (inverse(q) as u32 / inc) * inc, Linear inverse
num_from_q_br(Q, inc) == (((Max(Q, 0)) \div QScale) \div inc) * inc

\* cq_search.rs: (inverse(q) as f32 / inc).round() * inc, Sqrt inverse
num_from_q_cq(Q, inc) == round_sqrt_div(0, Max(Q, 0), inc) * inc

\* bitrate_search.rs num_from_q with either transform: inverse(q) as u32,
\* then the multiple of inc at or below it
num_from_q_u32(transform, Q, inc) ==
    IF transform = "Linear" THEN num_from_q_br(Q, inc)
    ELSE ((inverse(transform, Max(Q, 0)) \div QScale) \div inc) * inc

\* cq_search.rs num_from_q with either transform: (inverse(q) / inc).round()
\* * inc, halves away from zero
num_from_q_f32(transform, Q, inc) ==
    IF transform = "Sqrt" THEN num_from_q_cq(Q, inc)
    ELSE ((2 * Max(Q, 0) + QScale * inc) \div (2 * QScale * inc)) * inc

num_from_q(search, Q, inc) ==
    IF search = "bitrate" THEN num_from_q_br(Q, inc) ELSE num_from_q_cq(Q, inc)

TransformOf(search) == IF search = "bitrate" THEN "Linear" ELSE "Sqrt"

NoOutput == [vmaf |-> 0, encode_percent |-> 0]

\* mutant of Sample_new: the first q is the transform of the midpoint of the
\* two values, not the midpoint of the two transformed values
Sample_new_arithmetic_midpoint(search, min_val, max_val, inc) ==
    LET min_q == calc(TransformOf(search), min_val)
        max_q == calc(TransformOf(search), max_val)
        q     == calc(TransformOf(search), (min_val + max_val) \div 2)
        val   == num_from_q(search, q, inc)
    IN  [enc |-> NoOutput, val |-> val, prev |-> <<val, q>>, inc |-> inc,
         q |-> q, min_q |-> min_q, max_q |-> max_q, search |-> search]

Sample_new(search, min_val, max_val, inc) ==
    LET min_q == calc(TransformOf(search), min_val)
        max_q == calc(TransformOf(search), max_val)
        q     == (min_q + max_q) \div 2
        val   == num_from_q(search, q, inc)
    IN  [enc |-> NoOutput, val |-> val, prev |-> <<val, q>>, inc |-> inc,
         q |-> q, min_q |-> min_q, max_q |-> max_q, search |-> search]

val_to_prev(s) == [s EXCEPT !.prev = <<s.val, s.q>>]

from_q(s) == num_from_q(s.search, s.q, s.inc)

set_q(s, q) ==
    LET s1 == val_to_prev(s)
        s2 == [s1 EXCEPT !.q = q]
    IN  [s2 EXCEPT !.val = from_q(s2)]

\* Sample::br / Sample::cq
br(s) == s.prev[1]

(* Option values: <<>> is None, <<x>> is Some(x) *)
Some(x) == <<x>>
NoneOpt == <<>>

\* mutant of clamp: the interpolated q is taken as it is
clamp_left_out(x, lo, hi) == x

\* f64::clamp: panics when lo > hi
clamp_panics(lo, hi) == lo > hi
clamp(x, lo, hi) == IF x < lo THEN lo ELSE IF x > hi THEN hi ELSE x

\* the division of the interpolation, rounded to the nearest q unit
lerp_value(worse_q, worse_vmaf, better_q, better_vmaf, min_vmaf) ==
    LET num == worse_q * (better_vmaf - min_vmaf) + better_q * (min_vmaf - worse_vmaf)
        den == better_vmaf - worse_vmaf
    IN  (2 * num + den) \div (2 * den)

\* the assert! of vmaf_lerp_q
lerp_precondition(worse_q, worse_vmaf, better_q, better_vmaf, min_vmaf) ==
    worse_vmaf <= min_vmaf /\ worse_vmaf < better_vmaf /\ worse_q < better_q

\* Sample::vmaf_lerp_q; [panic |-> TRUE] when the assert! or the clamp aborts
vmaf_lerp_q(s, min_vmaf, worse, better) ==
    LET worse_q     == IF worse = NoneOpt THEN s.q ELSE worse[1].q
        worse_vmaf  == IF worse = NoneOpt THEN s.enc.vmaf ELSE worse[1].enc.vmaf
        better_q    == IF better = NoneOpt THEN s.q ELSE better[1].q
        better_vmaf == IF better = NoneOpt THEN s.enc.vmaf ELSE better[1].enc.vmaf
    IN  IF ~lerp_precondition(worse_q, worse_vmaf, better_q, better_vmaf, min_vmaf)
        THEN [panic |-> TRUE, why |-> "assert", s |-> s]
        ELSE IF clamp_panics(worse_q + QScale, better_q - QScale)
        THEN [panic |-> TRUE, why |-> "clamp", s |-> s]
        ELSE [panic |-> FALSE, why |-> "",
              s |-> set_q(s, clamp(lerp_value(worse_q, worse_vmaf, better_q,
                                              better_vmaf, min_vmaf),
                                   worse_q + QScale, better_q - QScale))]

(* ---------------------------- bound tracker ---------------------------- *)
MaxOf(S) == CHOOSE x \in S : \A y \in S : y <= x
MinOf(S) == CHOOSE x \in S : \A y \in S : x <= y

\* br_attempts.iter().filter(|s| s.q < sample.q).max_by_key(|s| s.q)
l_bound(attempts, s) ==
    LET below == {i \in 1..Len(attempts) : attempts[i].q < s.q}
    IN  IF below = {} THEN NoneOpt
        ELSE LET m == MaxOf({attempts[i].q : i \in below})
             IN  Some(attempts[MaxOf({i \in below : attempts[i].q = m})])

\* br_attempts.iter().filter(|s| s.q > sample.q).min_by_key(|s| s.q)
u_bound(attempts, s) ==
    LET above == {i \in 1..Len(attempts) : attempts[i].q > s.q}
    IN  IF above = {} THEN NoneOpt
        ELSE LET m == MinOf({attempts[i].q : i \in above})
             IN  Some(attempts[MinOf({i \in above : attempts[i].q = m})])

(* --------------------------- the controller ---------------------------- *)
\* 2_f32.powi(n - 1); the f32 does not overflow in any run of the model, the
\* integer would: past 2^16 the tolerance is above every score already
powi2(e) == 2 ^ Min(e, 16)

\* mutant of higher_tolerance: thorough mode takes the growing tolerance too
higher_tolerance_thorough_ignored(thorough, inc, n) == Max(inc * powi2(n - 1) * 10, 10)

\* how much above min-vmaf is accepted, in hundredths
higher_tolerance(thorough, inc, n) ==
    IF thorough THEN ThoroughTolerance ELSE Max(inc * powi2(n - 1) * 10, 10)

\* mutant of higher_tolerance_cq: the floor of 0.1 left out
higher_tolerance_cq_no_floor(thorough, inc, n) ==
    IF thorough THEN 500 ELSE inc * powi2(n - 1)

\* cq_search.rs, where the increment is an f32 that may be below 1: inc in
\* thousandths, the tolerance in units of 0.0001 (0.1 is 1000, 0.05 is 500)
higher_tolerance_cq(thorough, inc, n) ==
    IF thorough THEN 500 ELSE Max(inc * powi2(n - 1), 1000)

\* ensure_or_no_good_br!(cond, sample): Err(NoGoodBr { last: sample }) unless cond
ensure_or_no_good_br(cond, s, otherwise) ==
    IF cond THEN otherwise ELSE [kind |-> "NoGoodBr", sample |-> s]

Continue(lerped) ==
    IF lerped.panic THEN [kind |-> "panic", sample |-> lerped.s]
    ELSE [kind |-> "continue", sample |-> lerped.s]

NoPanic(s) == [panic |-> FALSE, why |-> "", s |-> s]

\* mutant of small_enough: the comparison turned around
small_enough_inverted(enc, a) == enc.encode_percent >= a.max_encoded_percent

\* line 215: sample.enc.encode_percent <= max_encoded_percent
small_enough(enc, a) == enc.encode_percent <= a.max_encoded_percent

\* mutants of lower_small_enough: the test left out, the test negated
lower_small_enough_dropped(upper, a) == TRUE
lower_small_enough_negated(upper, a) == upper.enc.encode_percent > a.max_encoded_percent

\* line 267: the size test of the upper attempt that is returned
lower_small_enough(upper, a) == upper.enc.encode_percent <= a.max_encoded_percent

\* mutant of is_good_enough: a score equal to min_vmaf counts as good enough
is_good_enough_or_equal(enc, a) == enc.vmaf >= a.min_vmaf

\* line 218: sample.enc.vmaf > min_vmaf
is_good_enough(enc, a) == enc.vmaf > a.min_vmaf

\* mutant of good_enough: a sample at min_q is a success whatever its size
good_enough_min_q_always_ok(s, attempts, n, a, sample_small_enough) ==
    LET lower == l_bound(attempts, s)
    IN  IF lower # NoneOpt /\ lower[1].q = s.q + QScale
        THEN ensure_or_no_good_br(sample_small_enough, s, [kind |-> "Ok", sample |-> s])
        ELSE IF lower # NoneOpt
        THEN Continue(vmaf_lerp_q(s, a.min_vmaf, lower, NoneOpt))
        ELSE IF s.q = s.min_q
        THEN [kind |-> "Ok", sample |-> s]
        ELSE IF n = 1 /\ s.q + QScale < s.min_q
        THEN Continue(NoPanic(set_q(s, (s.q + s.min_q) \div 2)))
        ELSE Continue(NoPanic(set_q(s, s.min_q)))

\* mutant of good_enough: the lower bound is passed as the better attempt
good_enough_swapped_pair(s, attempts, n, a, sample_small_enough) ==
    LET lower == l_bound(attempts, s)
    IN  IF lower # NoneOpt /\ lower[1].q = s.q + QScale
        THEN ensure_or_no_good_br(sample_small_enough, s, [kind |-> "Ok", sample |-> s])
        ELSE IF lower # NoneOpt
        THEN Continue(vmaf_lerp_q(s, a.min_vmaf, NoneOpt, lower))
        ELSE IF s.q = s.min_q
        THEN ensure_or_no_good_br(sample_small_enough, s, [kind |-> "Ok", sample |-> s])
        ELSE IF n = 1 /\ s.q + QScale < s.min_q
        THEN Continue(NoPanic(set_q(s, (s.q + s.min_q) \div 2)))
        ELSE Continue(NoPanic(set_q(s, s.min_q)))

\* the Good Enough branch after the immediate accept, lines 226-248
good_enough(s, attempts, n, a, sample_small_enough) ==
    LET lower == l_bound(attempts, s)
    IN  IF lower # NoneOpt /\ lower[1].q = s.q + QScale
        THEN ensure_or_no_good_br(sample_small_enough, s, [kind |-> "Ok", sample |-> s])
        ELSE IF lower # NoneOpt
        THEN Continue(vmaf_lerp_q(s, a.min_vmaf, lower, NoneOpt))
        ELSE IF s.q = s.min_q
        THEN ensure_or_no_good_br(sample_small_enough, s, [kind |-> "Ok", sample |-> s])
        ELSE IF n = 1 /\ s.q + QScale < s.min_q
        THEN Continue(NoPanic(set_q(s, (s.q + s.min_q) \div 2)))
        ELSE Continue(NoPanic(set_q(s, s.min_q)))

\* mutant of not_good_enough: the adjacent upper bound ends the search with the
\* current sample
not_good_enough_returns_current(s, attempts, n, a, sample_small_enough) ==
    IF ~sample_small_enough \/ s.q = s.max_q
    THEN ensure_or_no_good_br(FALSE, s, [kind |-> "Ok", sample |-> s])
    ELSE LET upper == u_bound(attempts, s)
         IN  IF upper # NoneOpt /\ upper[1].q - QScale = s.q
             THEN ensure_or_no_good_br(lower_small_enough(upper[1], a), s,
                                       [kind |-> "Ok", sample |-> s])
             ELSE IF upper # NoneOpt
             THEN Continue(vmaf_lerp_q(s, a.min_vmaf, NoneOpt, upper))
             ELSE IF n = 1 /\ s.q > s.max_q + QScale
             THEN Continue(NoPanic(set_q(s, (s.max_q + s.q) \div 2)))
             ELSE Continue(NoPanic(set_q(s, s.max_q)))

\* mutant of not_good_enough: a sample at max_q does not end the search
not_good_enough_ignores_max_q(s, attempts, n, a, sample_small_enough) ==
    IF ~sample_small_enough
    THEN ensure_or_no_good_br(FALSE, s, [kind |-> "Ok", sample |-> s])
    ELSE LET upper == u_bound(attempts, s)
         IN  IF upper # NoneOpt /\ upper[1].q - QScale = s.q
             THEN ensure_or_no_good_br(lower_small_enough(upper[1], a), s,
                                       [kind |-> "Ok", sample |-> upper[1]])
             ELSE IF upper # NoneOpt
             THEN Continue(vmaf_lerp_q(s, a.min_vmaf, NoneOpt, upper))
             ELSE IF n = 1 /\ s.q > s.max_q + QScale
             THEN Continue(NoPanic(set_q(s, (s.max_q + s.q) \div 2)))
             ELSE Continue(NoPanic(set_q(s, s.max_q)))

\* the Not Good Enough branch, lines 250-278
not_good_enough(s, attempts, n, a, sample_small_enough) ==
    IF ~sample_small_enough \/ s.q = s.max_q
    THEN ensure_or_no_good_br(FALSE, s, [kind |-> "Ok", sample |-> s])
    ELSE LET upper == u_bound(attempts, s)
         IN  IF upper # NoneOpt /\ upper[1].q - QScale = s.q
             THEN ensure_or_no_good_br(lower_small_enough(upper[1], a), s,
                                       [kind |-> "Ok", sample |-> upper[1]])
             ELSE IF upper # NoneOpt
             THEN Continue(vmaf_lerp_q(s, a.min_vmaf, NoneOpt, upper))
             ELSE IF n = 1 /\ s.q > s.max_q + QScale
             THEN Continue(NoPanic(set_q(s, (s.max_q + s.q) \div 2)))
             ELSE Continue(NoPanic(set_q(s, s.max_q)))

\* one evaluation: lines 215-279, with `attempts` already holding the clone of s0
Evaluate(s0, attempts, n, a) ==
    LET sample_small_enough == small_enough(s0.enc, a)
        s == val_to_prev(s0)
        tol == higher_tolerance(a.thorough, s.inc, n)
    IN  IF is_good_enough(s.enc, a)
        THEN IF sample_small_enough /\ s.enc.vmaf < a.min_vmaf + tol
             THEN [kind |-> "Ok", sample |-> s]
             ELSE good_enough(s, attempts, n, a, sample_small_enough)
        ELSE not_good_enough(s, attempts, n, a, sample_small_enough)

(* -------------------------- progress estimator ------------------------- *)
\* guess_progress with sample_progress = position / SampleBarLen, as the u64 the
\* bar takes; the product is split so that no intermediate exceeds BAR_LEN
guess_progress(n, position, thorough) ==
    LET total_runs_guess == IF thorough /\ n < 7 THEN 6 ELSE IF n < 5 THEN 4 ELSE n
        x == (n - 1) * SampleBarLen + position
        d == SampleBarLen * total_runs_guess
    IN  x * (BAR_LEN \div d) + (x * (BAR_LEN % d)) \div d

(* ------------------------------ the state ------------------------------ *)
Searches == {"bitrate", "cq"}

\* the command lines of the model: args.max = None is an absent --max-br
ArgsSet ==
    { [search |-> s, min |-> mn, max |-> mx, increment |-> inc, thorough |-> th,
       min_vmaf |-> DefaultMinVmaf, max_encoded_percent |-> DefaultMaxEncodedPercent] :
         s \in Searches, mn \in MinValues, mx \in {None} \cup (1..MaxValue),
         inc \in IncValues, th \in BOOLEAN }

MaxCq == MaxValue \div 2

\* the cq search takes its increment as it is (its floor is 0.001)
ValidArgs(a) ==
    a.search = "cq" => a.max <= MaxCq /\ a.increment >= 1

\* encoder.default_max_br() / default_max_cq(): the model's defaults lie in the
\* configurable range, the cq one low enough for a --min-cq to reach it
default_max(search) == IF search = "bitrate" THEN MaxValue ELSE MaxCq - 1

NoSample ==
    [enc |-> NoOutput, val |-> 0, prev |-> <<0, 0>>, inc |-> 0,
     q |-> 0, min_q |-> 0, max_q |-> 0, search |-> "none"]

NoResult == [kind |-> "none", sample |-> NoSample]

\* what a finished sample_encode::run task holds
Outputs ==
    { [kind |-> "output", enc |-> [vmaf |-> v, encode_percent |-> p]] :
         v \in VmafValues, p \in PercentValues }
    \cup { [kind |-> k, enc |-> NoOutput] : k \in {"err", "cancelled"} }

Pending == [kind |-> "pending", enc |-> NoOutput]

\* tokio::task::spawn_local(sample_encode::run(args with the trial value))
spawn_local(ts, val) == Append(ts, [state |-> "running", val |-> val, out |-> Pending])

\* an oracle that may answer anything, call by call
FreeOracle == [free |-> TRUE, f |-> <<>>]

\* what the oracle may answer to a sample encode of the trial value val
Answers(val) ==
    IF oracle.free THEN Outputs
    ELSE {[kind |-> "output", enc |-> oracle.f[val]]}

Init ==
    /\ args \in {a \in ArgsSet : ValidArgs(a)}
    /\ oracle = FreeOracle
    /\ pc = "start"
    /\ run = 0
    /\ sample = NoSample
    /\ br_attempts = <<>>
    /\ result = NoResult
    /\ tasks = <<>>
    /\ bar = 0

\* mutant of bounds_ordered: equal bounds let through
bounds_ordered_or_equal(min_br, max_br) == min_br <= max_br

\* line 147: ensure_other!(*min_br < max_br, ..)
bounds_ordered(min_br, max_br) == min_br < max_br

\* lines 146-194: validation, Sample::new, and the first spawn
Start ==
    /\ pc = "start"
    /\ LET max_br == IF args.max = None THEN default_max(args.search) ELSE args.max
           br_increment == Max(args.increment, 1)
       IN  IF ~bounds_ordered(args.min, max_br)
           THEN /\ result' = [kind |-> "Other", sample |-> NoSample]
                /\ pc' = "done"
                /\ UNCHANGED <<run, sample, tasks>>
           ELSE /\ sample' = Sample_new(args.search, args.min, max_br, br_increment)
                /\ run' = 1
                /\ tasks' = spawn_local(tasks, sample'.val)
                /\ pc' = "await"
                /\ UNCHANGED result
    /\ UNCHANGED <<args, oracle, br_attempts, bar>>

\* the oracle: a running sample_encode task ends with an output or an error
OracleFinish ==
    /\ \E i \in DOMAIN tasks :
          /\ tasks[i].state = "running"
          /\ \E out \in Answers(tasks[i].val) :
                tasks' = [tasks EXCEPT ![i] = [@ EXCEPT !.state = "finished", !.out = out]]
    /\ UNCHANGED <<args, oracle, pc, run, sample, br_attempts, result, bar>>

\* mutant of PollTimeout: the sample encode is spawned again inside the
\* polling loop
PollTimeoutRespawn ==
    /\ pc = "await"
    /\ tasks[Len(tasks)].state = "running"
    /\ \E position \in 0..SampleBarLen :
          bar' = guess_progress(run, position, args.thorough)
    /\ tasks' = spawn_local(tasks, sample.val)
    /\ UNCHANGED <<args, oracle, pc, run, sample, br_attempts, result>>

\* mutant of PollTimeout: a progress estimate that fills the bar ends the loop
PollTimeoutGates ==
    /\ pc = "await"
    /\ tasks[Len(tasks)].state = "running"
    /\ \E position \in 0..SampleBarLen :
          /\ bar' = guess_progress(run, position, args.thorough)
          /\ IF bar' >= BAR_LEN
             THEN pc' = "done" /\ result' = [kind |-> "Other", sample |-> NoSample]
             ELSE UNCHANGED <<pc, result>>
    /\ UNCHANGED <<args, oracle, run, sample, br_attempts, tasks>>

\* lines 197-202: the 100 ms timeout fires before the task has finished
PollTimeout ==
    /\ pc = "await"
    /\ tasks[Len(tasks)].state = "running"
    /\ \E position \in 0..SampleBarLen :
          bar' = guess_progress(run, position, args.thorough)
    /\ UNCHANGED <<args, oracle, pc, run, sample, br_attempts, result, tasks>>

\* mutant of PropagateError: the failed sample encode is tried again
RetryOnError(joined) ==
    /\ tasks' = spawn_local(joined, sample.val)
    /\ UNCHANGED <<pc, result, run, sample, br_attempts>>

\* line 211: sample_task?? returns the join error or the oracle's error
PropagateError(joined) ==
    /\ result' = [kind |-> "Other", sample |-> NoSample]
    /\ pc' = "done"
    /\ tasks' = joined
    /\ UNCHANGED <<run, sample, br_attempts>>

\* mutant of TakeResult: the sample is pushed to the history at the end of the
\* iteration, after val_to_prev and set_q have changed it
TakeResultPushesLate ==
    /\ pc = "await"
    /\ tasks[Len(tasks)].state = "finished"
    /\ LET out == tasks[Len(tasks)].out
           joined == [tasks EXCEPT ![Len(tasks)].state = "joined"]
       IN  IF out.kind # "output"
           THEN PropagateError(joined)
           ELSE LET s1 == [sample EXCEPT !.enc = out.enc]
                    attempts == Append(br_attempts, s1)
                    ev == Evaluate(s1, attempts, run, args)
                IN  IF ev.kind = "continue"
                    THEN /\ sample' = ev.sample
                         /\ br_attempts' = Append(br_attempts, ev.sample)
                         /\ run' = run + 1
                         /\ tasks' = spawn_local(joined, ev.sample.val)
                         /\ pc' = "await"
                         /\ UNCHANGED result
                    ELSE /\ sample' = val_to_prev(s1)
                         /\ br_attempts' = Append(br_attempts, val_to_prev(s1))
                         /\ result' = ev
                         /\ pc' = "done"
                         /\ tasks' = joined
                         /\ UNCHANGED run
    /\ UNCHANGED <<args, oracle, bar>>

\* lines 203-281: the task's result is taken and evaluated; the loop either
\* returns or sets the next q and spawns the next sample encode
TakeResult ==
    /\ pc = "await"
    /\ tasks[Len(tasks)].state = "finished"
    /\ LET out == tasks[Len(tasks)].out
           joined == [tasks EXCEPT ![Len(tasks)].state = "joined"]
       IN  IF out.kind # "output"
           THEN PropagateError(joined)
           ELSE LET s1 == [sample EXCEPT !.enc = out.enc]
                    attempts == Append(br_attempts, s1)
                    ev == Evaluate(s1, attempts, run, args)
                IN  /\ br_attempts' = attempts
                    /\ IF ev.kind = "continue"
                       THEN /\ sample' = ev.sample
                            /\ run' = run + 1
                            /\ tasks' = spawn_local(joined, ev.sample.val)
                            /\ pc' = "await"
                            /\ UNCHANGED result
                       ELSE /\ sample' = val_to_prev(s1)
                            /\ result' = ev
                            /\ pc' = "done"
                            /\ tasks' = joined
                            /\ UNCHANGED run
    /\ UNCHANGED <<args, oracle, bar>>

Next == Start \/ OracleFinish \/ PollTimeout \/ TakeResult

Spec == Init /\ [][Next]_vars

(* ------------------- the scenario of the design's tests ----------------- *)
\* value range [100, 1000], increment 100, Linear transform, min_vmaf 95.0,
\* max size 80%
ScenarioArgsSet ==
    { [search |-> "bitrate", min |-> 100, max |-> 1000, increment |-> 100,
       thorough |-> th, min_vmaf |-> DefaultMinVmaf,
       max_encoded_percent |-> DefaultMaxEncodedPercent] : th \in {FALSE} }

ScenarioValues == {100 * k : k \in 1..10}

\* the oracles that are functions of the trial value: the score steps from lo
\* (not good enough) to hi (good enough) after the value 100 * cut; every size
\* is within budget, or only the one of the value 1000 is not
ScenarioOracles ==
    { [free |-> FALSE,
       f |-> [v \in ScenarioValues |->
                [vmaf |-> IF v \div 100 > cut THEN hi ELSE lo,
                 encode_percent |-> IF v \div 100 > pcut THEN 95 ELSE 80]]] :
         cut \in 0..10, pcut \in {9, 10},
         lo \in {x \in VmafValues : x < DefaultMinVmaf},
         hi \in {x \in VmafValues : x > DefaultMinVmaf} }

InitScenario ==
    /\ args \in ScenarioArgsSet
    /\ oracle \in ScenarioOracles
    /\ pc = "start"
    /\ run = 0
    /\ sample = NoSample
    /\ br_attempts = <<>>
    /\ result = NoResult
    /\ tasks = <<>>
    /\ bar = 0

SpecScenario == InitScenario /\ [][Next]_vars

(* ---------------------- the Sample type on its own ---------------------- *)
\* how many set_q calls in a row, with no oracle call in between, the
\* behaviours of SpecSample make
MaxSetQ == 2

\* the command lines of SpecSample: the valid ones of the model, the scenario
\* of the design's tests, and the constant quality range [1, 100], increment 1
SampleArgsSet ==
    { a \in ArgsSet :
        /\ ValidArgs(a)
        /\ ~a.thorough
        /\ bounds_ordered(a.min, IF a.max = None THEN default_max(a.search) ELSE a.max) }
    \cup ScenarioArgsSet
    \cup { [search |-> "cq", min |-> 1, max |-> 100, increment |-> 1,
            thorough |-> FALSE, min_vmaf |-> DefaultMinVmaf,
            max_encoded_percent |-> DefaultMaxEncodedPercent] }

\* the q that SpecSample gives to set_q: the ends of the range, its midpoint,
\* and the q next to the ends that the interpolation's clamp yields
SetQChoices(s) ==
    { s.min_q, s.max_q, (s.min_q + s.max_q) \div 2,
      s.min_q + QScale, s.max_q - QScale }

InitSample ==
    /\ args \in SampleArgsSet
    /\ oracle = FreeOracle
    /\ pc = "new"
    /\ run = 0
    /\ sample = NoSample
    /\ br_attempts = <<>>
    /\ result = NoResult
    /\ tasks = <<>>
    /\ bar = 0

\* Sample::new, as run calls it (lines 164-172)
SampleNew ==
    /\ pc = "new"
    /\ sample' = Sample_new(args.search, args.min,
                            IF args.max = None THEN default_max(args.search) ELSE args.max,
                            Max(args.increment, 1))
    /\ pc' = "sample"
    /\ UNCHANGED <<args, oracle, run, br_attempts, result, tasks, bar>>

\* the oracle evaluates the trial the sample holds: sample.enc is set and the
\* clone is the last evaluated trial (lines 211-214)
SampleMeasure ==
    /\ pc = "sample"
    /\ \E p \in PercentValues :
          sample' = [sample EXCEPT !.enc = [vmaf |-> DefaultMinVmaf, encode_percent |-> p]]
    /\ br_attempts' = <<sample'>>
    /\ run' = 0
    /\ UNCHANGED <<args, oracle, pc, result, tasks, bar>>

\* one call of Sample::set_q
SampleSetQ ==
    /\ pc = "sample"
    /\ run < MaxSetQ
    /\ \E q \in SetQChoices(sample) : sample' = set_q(sample, q)
    /\ run' = run + 1
    /\ UNCHANGED <<args, oracle, pc, br_attempts, result, tasks, bar>>

NextSample == SampleNew \/ SampleMeasure \/ SampleSetQ

SpecSample == InitSample /\ [][NextSample]_vars

(* ------------------- the pure functions on their own ------------------- *)
\* how many iterations the tolerance is computed for
MaxRun == 6

Transforms == {"Linear", "Sqrt", "Ln"}

\* the values a transform is applied to: the small ones of the model, the ends
\* of the ranges of the design's tests, and the two around the largest whole x
\* with a finite e^x
TransformValues == {1, 2, 3, 6, 100, 709, 710, 1000}

\* the q (in q units) that are quantized to a trial value
QuantizedQs == 0..(MaxValue * QScale)

\* increments in thousandths: 0.001, 0.1, 0.5, 1, 2, 100
IncMilliValues == {1, 100, 500, 1000, 2000, 100000}

InitPure ==
    /\ args \in ScenarioArgsSet
    /\ oracle = FreeOracle
    /\ pc = "apply"
    /\ run = 0
    /\ sample = NoSample
    /\ br_attempts = <<>>
    /\ result = NoResult
    /\ tasks = <<>>
    /\ bar = 0

\* calc and then inverse of one value; tasks holds the last application
ApplyTransform ==
    /\ pc = "apply"
    /\ \E t \in Transforms, v \in TransformValues :
          tasks' = <<[op |-> "transform", transform |-> t, val |-> v,
                      q |-> calc(t, v), back |-> inverse(t, calc(t, v))]>>
    /\ UNCHANGED <<args, oracle, pc, run, sample, br_attempts, result, bar>>

\* num_from_q of the two files on the same q, increment and transform
ApplyNumFromQ ==
    /\ pc = "apply"
    /\ \E t \in {"Linear", "Sqrt"}, Q \in QuantizedQs, inc \in {1, 2} :
          tasks' = <<[op |-> "num_from_q", transform |-> t, q |-> Q, inc |-> inc,
                      br |-> num_from_q_u32(t, Q, inc),
                      cq |-> num_from_q_f32(t, Q, inc)]>>
    /\ UNCHANGED <<args, oracle, pc, run, sample, br_attempts, result, bar>>

\* the tolerance of iteration n and of the one before it, in cq_search.rs, and
\* in bitrate_search.rs when the increment is a whole number
ApplyTolerance ==
    /\ pc = "apply"
    /\ \E inc \in IncMilliValues, n \in 1..MaxRun :
          tasks' = <<[op |-> "tolerance", inc |-> inc, n |-> n,
                      tol |-> higher_tolerance_cq(FALSE, inc, n),
                      before |-> IF n > 1 THEN higher_tolerance_cq(FALSE, inc, n - 1)
                                 ELSE 0,
                      br_tol |-> IF inc % 1000 = 0
                                 THEN 100 * higher_tolerance(FALSE, inc \div 1000, n)
                                 ELSE None]>>
    /\ UNCHANGED <<args, oracle, pc, run, sample, br_attempts, result, bar>>

NextPure == ApplyTransform \/ ApplyNumFromQ \/ ApplyTolerance

SpecPure == InitPure /\ [][NextPure]_vars

(* ------------------------------- claims -------------------------------- *)
\* the bounds and the increment the search runs with (lines 146-151)
EffectiveMax == IF args.max = None THEN default_max(args.search) ELSE args.max
EffectiveInc == Max(args.increment, 1)

Viable(enc) ==
    enc.vmaf > args.min_vmaf /\ enc.encode_percent <= args.max_encoded_percent

LastAttempt == br_attempts[Len(br_attempts)]

\* C1: every Ok result carries a measurement the oracle gave, whose score is
\* above min_vmaf and whose size is at most max_encoded_percent, whatever the
\* oracle answered before (non-monotone answers included)
C1_SuccessMeetsBothConstraints ==
    result.kind = "Ok" =>
        /\ Viable(result.sample.enc)
        /\ \E i \in DOMAIN tasks :
              tasks[i].out.kind = "output" /\ tasks[i].out.enc = result.sample.enc

\* C1 witness: a success that returns the upper-bound attempt, not the last one
C1_Witness ==
    /\ result.kind = "Ok"
    /\ Len(br_attempts) >= 3
    /\ result.sample.q # LastAttempt.q

\* C2: the Sample a success returns reports, through br() / cq(), the trial
\* value that was given to the oracle for the measurement it carries
C2_ReportedValueIsTheMeasuredTrial ==
    result.kind = "Ok" =>
        \A i \in DOMAIN br_attempts :
            (br_attempts[i].q = result.sample.q /\ br_attempts[i].enc = result.sample.enc)
                => br(result.sample) = tasks[i].val

RECURSIVE Log2Ceil(_)
Log2Ceil(n) == IF n <= 1 THEN 0 ELSE 1 + Log2Ceil((n + 1) \div 2)

\* C3: the loop ends with a success or a classified failure, never with an
\* abort, within log2((max_q - min_q) / increment) + 3 oracle calls
C3_TerminatesWithinLogBound ==
    tasks # <<>> =>
        /\ result.kind # "panic"
        /\ Len(tasks) <= Log2Ceil((sample.max_q - sample.min_q) \div (QScale * sample.inc)) + 3

MonotoneHistory ==
    \A i, j \in DOMAIN br_attempts :
        br_attempts[i].q <= br_attempts[j].q =>
            /\ br_attempts[i].enc.vmaf <= br_attempts[j].enc.vmaf
            /\ br_attempts[i].enc.encode_percent <= br_attempts[j].enc.encode_percent

C5_TrialsWithinBoundsAndQuantized ==
    \A i \in DOMAIN tasks :
        /\ args.min <= tasks[i].val
        /\ tasks[i].val <= EffectiveMax
        /\ tasks[i].val % EffectiveInc = 0

\* C6: when an oracle call fails or is cancelled the search returns the error
\* at once: no call follows it, it adds no entry to the history, and the loop
\* has ended as soon as its result is taken
C6_OracleFailureEndsTheSearch ==
    \A i \in DOMAIN tasks :
        tasks[i].out.kind \in {"err", "cancelled"} =>
            /\ i = Len(tasks)
            /\ Len(br_attempts) = i - 1
            /\ tasks[i].state = "joined" => (pc = "done" /\ result.kind = "Other")

\* C6 witness: the second or a later oracle call failed and the search ended
C6_Witness ==
    /\ Len(tasks) >= 2
    /\ tasks[Len(tasks)].out.kind \in {"err", "cancelled"}
    /\ tasks[Len(tasks)].state = "joined"

\* C7: with min_value >= max_value (the default maximum applied) the search
\* returns an error before any oracle call and before any attempt is recorded
C7_InvalidBoundsRejectedBeforeAnyCall ==
    args.min >= EffectiveMax =>
        /\ tasks = <<>>
        /\ br_attempts = <<>>
        /\ pc \in {"start", "done"}
        /\ pc = "done" => result.kind = "Other"

\* C7 witness: a search with an absent --max whose default is not above --min
\* has ended
C7_Witness ==
    /\ args.max = None
    /\ args.min >= EffectiveMax
    /\ pc = "done"

\* the oracle calls that are spawned and whose result has not been taken
InFlight(ts) == {i \in DOMAIN ts : ts[i].state # "joined"}

\* C8: at most one oracle call is in flight; a call is started only when every
\* earlier one has been taken and recorded; a poll (a step that moves the bar)
\* leaves the calls, the history and the loop where they are; a result that is
\* there is not changed and a result that was taken is not taken again
C8_OneOracleCallAtATime ==
    [][ /\ Cardinality(InFlight(tasks')) <= 1
        /\ Len(tasks') > Len(tasks) =>
              /\ Len(tasks') = Len(tasks) + 1
              /\ \A i \in DOMAIN tasks : tasks'[i].state = "joined"
              /\ Len(br_attempts') = Len(tasks)
        /\ bar' # bar =>
              /\ tasks' = tasks
              /\ br_attempts' = br_attempts
              /\ pc' = pc /\ sample' = sample /\ result' = result
        /\ \A i \in DOMAIN tasks :
              /\ tasks[i].state = "joined" => tasks'[i] = tasks[i]
              /\ tasks[i].state = "finished" => tasks'[i].out = tasks[i].out
      ]_vars

\* C8 witness: the second or a later call is running and has been polled
C8_Witness ==
    /\ run >= 2
    /\ pc = "await"
    /\ tasks[Len(tasks)].state = "running"
    /\ bar = guess_progress(run, SampleBarLen, args.thorough)

AllTooBig ==
    \A i \in DOMAIN br_attempts :
        br_attempts[i].enc.encode_percent > args.max_encoded_percent

\* C9: when every answer of the oracle is above max_encoded_percent, whatever
\* the scores, the search never succeeds and never aborts; it ends within two
\* calls with the "no viable value" failure, which carries the last attempt
C9_AlwaysTooBigFails ==
    (br_attempts # <<>> /\ AllTooBig) =>
        /\ result.kind \notin {"Ok", "panic"}
        /\ Len(br_attempts) <= 2
        /\ (pc = "done" /\ result.kind # "Other") =>
              /\ result.kind = "NoGoodBr"
              /\ result.sample.enc = LastAttempt.enc
              /\ br(result.sample) = tasks[Len(br_attempts)].val

\* C9 witness: a failure after two answers, both too big
C9_Witness ==
    /\ Len(br_attempts) = 2
    /\ AllTooBig
    /\ result.kind = "NoGoodBr"

\* the values of the scenario that meet both constraints
ScenarioViable ==
    {v \in ScenarioValues : Viable(oracle.f[v])}

\* C10: in the scenario, with a score that crosses 95.0 between 500 and 600,
\* the search returns the smallest value that meets both constraints, within
\* 6 oracle calls
C10_ConvergesToSmallestViable ==
    (/\ ~oracle.free
     /\ oracle.f[500].vmaf < args.min_vmaf
     /\ oracle.f[600].vmaf > args.min_vmaf
     /\ pc = "done") =>
        /\ Len(tasks) <= 6
        /\ result.kind = "Ok"
        /\ br(result.sample) = MinOf(ScenarioViable)

\* the oracle of the scenario that answers score 99.9, size 80%, to every value
AlwaysGood ==
    /\ ~oracle.free
    /\ \A v \in DOMAIN oracle.f : oracle.f[v] = [vmaf |-> 9990, encode_percent |-> 80]

\* C11: when the oracle answers score 99.9 with a size within budget to every
\* value, the search succeeds within two oracle calls and the value it returns
\* is min_value or the next value of the grid above it
C11_AlwaysGoodAcceptsNearMin ==
    (AlwaysGood /\ pc = "done") =>
        /\ result.kind = "Ok"
        /\ Len(tasks) <= 2
        /\ br(result.sample) <= args.min + EffectiveInc

\* the command line of the scenario: bitrate, range [100, 1000], increment 100
ScenarioRange ==
    /\ args.search = "bitrate"
    /\ args.min = 100 /\ args.max = 1000 /\ args.increment = 100

\* C12 as claimed: with the range [100, 1000], increment 100 and the Linear
\* transform, the first trial value given to the oracle is 550
C12_FirstTrialIs550 ==
    (ScenarioRange /\ tasks # <<>>) => tasks[1].val = 550

\* C12 amended: with the range [100, 1000], increment 100 and the Linear
\* transform, the first q is 550 and the first trial value given to the oracle
\* is 500, which is 550 quantized down to a multiple of the increment
C12_FirstTrialIs550QuantizedTo500 ==
    (ScenarioRange /\ tasks # <<>>) =>
        /\ tasks[1].val = 500
        /\ br_attempts # <<>> =>
              (br_attempts[1].q = 550 * QScale /\ br_attempts[1].val = 500)

\* C12 witness: the first trial of the scenario has been measured
C12_Witness ==
    /\ ScenarioRange
    /\ br_attempts # <<>>
    /\ br_attempts[1].q = 550 * QScale
    /\ tasks[1].state = "joined"

\* an attempt of the history lies exactly 1.0 of q from q
AdjacentAttempt(q) ==
    \E i \in DOMAIN br_attempts :
        br_attempts[i].q = q - QScale \/ br_attempts[i].q = q + QScale

\* C13: in thorough mode the tolerance is 0.05 on every iteration, and a
\* success carries a score below min_vmaf + 0.05 unless the bracket around the
\* returned trial is exhausted: an attempt lies 1.0 of q next to it, or it is
\* at min_q
C13_ThoroughToleranceIsFixed ==
    args.thorough =>
        /\ run >= 1 => higher_tolerance(args.thorough, EffectiveInc, run) = ThoroughTolerance
        /\ result.kind = "Ok" =>
              \/ result.sample.enc.vmaf < args.min_vmaf + ThoroughTolerance
              \/ result.sample.q = result.sample.min_q
              \/ AdjacentAttempt(result.sample.q)

\* C13 witness: a thorough search accepts, on its second or a later iteration
\* (where the default tolerance would have grown), a score within 0.05 above
\* min_vmaf at a trial whose bracket is not exhausted
C13_Witness ==
    /\ args.thorough
    /\ result.kind = "Ok"
    /\ Len(br_attempts) >= 2
    /\ result.sample.q = LastAttempt.q
    /\ result.sample.enc.vmaf > args.min_vmaf
    /\ result.sample.enc.vmaf < args.min_vmaf + ThoroughTolerance
    /\ result.sample.q # result.sample.min_q
    /\ ~AdjacentAttempt(result.sample.q)

\* the search as a function of the command line and of the oracle's answers
\* alone: the state after Start
ReplayStart(a) ==
    LET max_br == IF a.max = None THEN default_max(a.search) ELSE a.max
        s == Sample_new(a.search, a.min, max_br, Max(a.increment, 1))
    IN  IF ~bounds_ordered(a.min, max_br)
        THEN [pc |-> "done", run |-> 0, sample |-> NoSample, br_attempts |-> <<>>,
              result |-> [kind |-> "Other", sample |-> NoSample], vals |-> <<>>]
        ELSE [pc |-> "await", run |-> 1, sample |-> s, br_attempts |-> <<>>,
              result |-> NoResult, vals |-> <<s.val>>]

\* the state after one more answer has been taken
ReplayAnswer(a, st, out) ==
    LET s1 == [st.sample EXCEPT !.enc = out.enc]
        attempts == Append(st.br_attempts, s1)
        ev == Evaluate(s1, attempts, st.run, a)
    IN  IF out.kind # "output"
        THEN [st EXCEPT !.pc = "done", !.result = [kind |-> "Other", sample |-> NoSample]]
        ELSE IF ev.kind = "continue"
        THEN [st EXCEPT !.sample = ev.sample, !.run = st.run + 1,
                        !.br_attempts = attempts, !.vals = Append(st.vals, ev.sample.val)]
        ELSE [st EXCEPT !.pc = "done", !.sample = val_to_prev(s1),
                        !.br_attempts = attempts, !.result = ev]

RECURSIVE Replay(_, _, _)
Replay(a, st, outs) ==
    IF outs = <<>> THEN st
    ELSE Replay(a, ReplayAnswer(a, st, Head(outs)), Tail(outs))

\* the answers that have been taken, in order
TakenAnswers ==
    [i \in {j \in DOMAIN tasks : tasks[j].state = "joined"} |-> tasks[i].out]

\* C14: the trial values, the history and the termination decision are a
\* function of the command line and of the answers taken so far, whatever
\* positions the progress took and however often it was polled; the estimate
\* is only ever in the bar
C14_ProgressHasNoEffect ==
    pc # "start" =>
        LET st == Replay(args, ReplayStart(args), TakenAnswers)
        IN  /\ pc = st.pc
            /\ run = st.run
            /\ sample = st.sample
            /\ br_attempts = st.br_attempts
            /\ result = st.result
            /\ [i \in DOMAIN tasks |-> tasks[i].val] = st.vals
            /\ bar \in {0} \cup { guess_progress(n, position, args.thorough) :
                                    n \in 1..run, position \in 0..SampleBarLen }

\* C14 witness: a search of two or more calls has ended with a success or a
\* classified failure, its last call polled past half of the bar
C14_Witness ==
    /\ pc = "done"
    /\ result.kind \in {"Ok", "NoGoodBr"}
    /\ Len(br_attempts) >= 2
    /\ bar >= BAR_LEN \div 2

(* the last attempt and what the loop saw when it evaluated it *)
\* the iteration that evaluated the last attempt
LastRun == Len(br_attempts)

LastGood == LastAttempt.enc.vmaf > args.min_vmaf
LastSmall == LastAttempt.enc.encode_percent <= args.max_encoded_percent

\* the tolerance of the iteration that evaluated the last attempt, in
\* hundredths: 0.05 when thorough, else max(increment * 2^(run - 1) * 0.1, 0.1)
LastTolerance ==
    IF args.thorough THEN 5 ELSE Max(EffectiveInc * (2 ^ Min(LastRun - 1, 16)) * 10, 10)

LastAccepted ==
    LastGood /\ LastSmall /\ LastAttempt.enc.vmaf < args.min_vmaf + LastTolerance

\* the prior attempts strictly below / above the last one, and the tightest
LowerBounds == {i \in DOMAIN br_attempts : br_attempts[i].q < LastAttempt.q}
UpperBounds == {i \in DOMAIN br_attempts : br_attempts[i].q > LastAttempt.q}

TightestLower ==
    CHOOSE i \in LowerBounds : \A j \in LowerBounds : br_attempts[j].q <= br_attempts[i].q
TightestUpper ==
    CHOOSE i \in UpperBounds : \A j \in UpperBounds : br_attempts[i].q <= br_attempts[j].q

\* the last evaluation ended the search without a further oracle call
EndedAtOnce ==
    /\ pc = "done"
    /\ Len(tasks) = Len(br_attempts)

\* the last evaluation interpolated from a lower bound (lines 236-238) or from
\* an upper bound (lines 271-273)
LerpedFromLower == LastGood /\ ~LastAccepted /\ LowerBounds # {}
LerpedFromUpper ==
    /\ ~LastGood /\ LastSmall /\ LastAttempt.q # LastAttempt.max_q
    /\ UpperBounds # {}
    /\ br_attempts[TightestUpper].q - QScale # LastAttempt.q

\* the claimed precondition of the interpolation
ValidPair(worse, better) ==
    /\ worse.enc.vmaf <= args.min_vmaf
    /\ args.min_vmaf < better.enc.vmaf
    /\ worse.q < better.q

InsideBracket(worse, better) ==
    /\ pc = "await"
    /\ result.kind = "none"
    /\ worse.q + QScale <= sample.q
    /\ sample.q <= better.q - QScale

\* C15: whenever vmaf_lerp_q is called with a (worse, better) pair such that
\* worse.vmaf <= min_vmaf < better.vmaf and worse.q < better.q, it sets a next
\* q with worse.q + 1 <= q <= better.q - 1
C15_LerpStaysInsideBracket ==
    br_attempts # <<>> =>
        /\ (LerpedFromLower /\ ValidPair(br_attempts[TightestLower], LastAttempt))
              => InsideBracket(br_attempts[TightestLower], LastAttempt)
        /\ (LerpedFromUpper /\ ValidPair(LastAttempt, br_attempts[TightestUpper]))
              => InsideBracket(LastAttempt, br_attempts[TightestUpper])

\* C16: a good enough attempt that is not accepted at once, and whose tightest
\* lower bound is exactly 1.0 of q below it, ends the search at once: success
\* with this attempt if it is small enough, else the classified failure
C16_AdjacentLowerBoundTerminates ==
    (/\ br_attempts # <<>>
     /\ LastGood /\ ~LastAccepted
     /\ LowerBounds # {}
     /\ br_attempts[TightestLower].q = LastAttempt.q - QScale) =>
        /\ EndedAtOnce
        /\ result.kind = (IF LastSmall THEN "Ok" ELSE "NoGoodBr")
        /\ result.sample.q = LastAttempt.q
        /\ result.sample.enc = LastAttempt.enc

C18_FirstGoodRetriesAtMidpoint ==
    (/\ Len(br_attempts) = 1
     /\ LastGood /\ ~LastAccepted
     /\ LastAttempt.q > LastAttempt.min_q + QScale) =>
        /\ pc = "await"
        /\ sample.q = (LastAttempt.q + LastAttempt.min_q) \div 2

\* C19: an attempt whose score exceeds min_vmaf, whose size is at most
\* max_encoded_percent and whose score is below min_vmaf plus the tolerance of
\* its iteration is returned as the success with no further oracle call; an
\* attempt whose score equals min_vmaf is never returned
C19_AcceptedImmediately ==
    br_attempts # <<>> =>
        /\ LastAccepted =>
              /\ EndedAtOnce
              /\ result.kind = "Ok"
              /\ result.sample.q = LastAttempt.q
              /\ result.sample.enc = LastAttempt.enc
              /\ br(result.sample) = tasks[LastRun].val
        /\ result.kind = "Ok" => result.sample.enc.vmaf # args.min_vmaf
        /\ (LastAttempt.enc.vmaf = args.min_vmaf /\ result.kind = "Ok")
              => result.sample.q # LastAttempt.q

\* C19 witness: an attempt of the third or a later iteration was accepted at
\* once with a score that the tolerance of the first iteration excludes
C19_Witness ==
    /\ LastRun >= 3
    /\ LastAccepted
    /\ LastAttempt.enc.vmaf >= args.min_vmaf + 30
    /\ result.kind = "Ok"

\* C20: a not good enough attempt that is too big, or that is at max_q, ends
\* the search at once with the classified failure carrying that attempt
C20_NotGoodAndTooBigOrAtMaxFails ==
    (/\ br_attempts # <<>>
     /\ ~LastGood
     /\ (~LastSmall \/ LastAttempt.q = LastAttempt.max_q)) =>
        /\ EndedAtOnce
        /\ result.kind = "NoGoodBr"
        /\ result.sample.q = LastAttempt.q
        /\ result.sample.enc = LastAttempt.enc
        /\ br(result.sample) = tasks[LastRun].val

\* C20 witness: a small enough attempt at max_q that is not good enough ended
\* the search after a good enough attempt had been seen
C20_Witness ==
    /\ Len(br_attempts) >= 2
    /\ ~LastGood /\ LastSmall
    /\ LastAttempt.q = LastAttempt.max_q
    /\ result.kind = "NoGoodBr"

\* C21: a good enough attempt that is not accepted at once, with no prior
\* attempt of lower q, and whose q is min_q, ends the search at once: success
\* with this attempt if it is small enough, else the classified failure
\* carrying it
C21_GoodAtMinQTerminates ==
    (/\ br_attempts # <<>>
     /\ LastGood /\ ~LastAccepted
     /\ LowerBounds = {}
     /\ LastAttempt.q = LastAttempt.min_q) =>
        /\ EndedAtOnce
        /\ result.kind = (IF LastSmall THEN "Ok" ELSE "NoGoodBr")
        /\ result.sample.q = LastAttempt.q
        /\ result.sample.enc = LastAttempt.enc
        /\ br(result.sample) = tasks[LastRun].val

\* C21 witness: the search went down to min_q, where the attempt was good
\* enough and too big, and failed
C21_Witness ==
    /\ Len(br_attempts) >= 2
    /\ LastGood /\ ~LastSmall
    /\ LowerBounds = {}
    /\ LastAttempt.q = LastAttempt.min_q
    /\ result.kind = "NoGoodBr"

\* C22: after any number of set_q calls since the last oracle call, prev holds
\* the value and the q of the last trial the oracle evaluated
C22_PrevIsLastEvaluatedTrial ==
    (pc = "sample" /\ br_attempts # <<>> /\ run >= 1) =>
        sample.prev = <<br_attempts[1].val, br_attempts[1].q>>

\* the quantization of a q to a trial value, written out: the bitrate search
\* takes the multiple of the increment at or below inverse(q), the constant
\* quality search the multiple nearest to sqrt(q)
QuantizedFrom(search, val, q, inc) ==
    /\ val % inc = 0
    /\ IF search = "bitrate"
       THEN val * QScale <= q /\ q < (val + inc) * QScale
       ELSE /\ (2 * val - inc) * (2 * val - inc) * QScale <= 4 * q
            /\ 4 * q < (2 * val + inc) * (2 * val + inc) * QScale

\* C25: Sample::new sets min_q and max_q to the transformed bounds, q to their
\* midpoint and the trial value to inverse(q) quantized to the increment; with
\* the Sqrt transform and the range [1, 100], increment 1, the first trial is
\* 71, the quantized sqrt((1 + 10000) / 2), not 50 or 51
C25_NewStartsAtTransformedMidpoint ==
    (pc = "sample" /\ br_attempts = <<>> /\ run = 0) =>
        /\ sample.min_q = (IF args.search = "bitrate" THEN args.min
                           ELSE args.min * args.min) * QScale
        /\ sample.max_q = (IF args.search = "bitrate" THEN EffectiveMax
                           ELSE EffectiveMax * EffectiveMax) * QScale
        /\ 2 * sample.q = sample.min_q + sample.max_q
        /\ QuantizedFrom(args.search, sample.val, sample.q, EffectiveInc)
        /\ sample.prev = <<sample.val, sample.q>>
        /\ (args.search = "cq" /\ args.min = 1 /\ args.max = 100) =>
              (sample.val = 71 /\ sample.q = 10001)

\* C25 witness: the Sample of the constant quality range [1, 100] is created
C25_Witness ==
    /\ pc = "sample"
    /\ args.search = "cq" /\ args.min = 1 /\ args.max = 100
    /\ sample.val = 71
    /\ br_attempts = <<>> /\ run = 0

\* C23: the history is append-only. A step leaves it as it is or appends one
\* entry, the trial (value, q, measurement) of the oracle call whose result
\* the step takes; every earlier entry stays as it was; and taking a call's
\* output always appends
C23_HistoryIsAppendOnly ==
    [][ /\ \/ br_attempts' = br_attempts
           \/ /\ Len(br_attempts') = Len(br_attempts) + 1
              /\ SubSeq(br_attempts', 1, Len(br_attempts)) = br_attempts
              /\ LET i == Len(br_attempts')
                     e == br_attempts'[i]
                 IN  /\ i = Len(tasks)
                     /\ tasks[i].state = "finished" /\ tasks'[i].state = "joined"
                     /\ tasks[i].out.kind = "output"
                     /\ e.val = tasks[i].val
                     /\ e.enc = tasks[i].out.enc
                     /\ e.q = sample.q
                     /\ e.prev = sample.prev
        /\ \A i \in DOMAIN tasks :
              (tasks[i].state = "finished" /\ tasks'[i].state = "joined"
               /\ tasks[i].out.kind = "output")
                 => Len(br_attempts') = Len(br_attempts) + 1
      ]_vars

\* C23 witness: a history of three or more entries, the last trial set by the
\* interpolation between two of them
C23_Witness ==
    /\ Len(br_attempts) >= 3
    /\ \E i, j \in DOMAIN br_attempts :
          /\ br_attempts[i].q < LastAttempt.q
          /\ LastAttempt.q < br_attempts[j].q
    /\ \A i \in DOMAIN br_attempts : br_attempts[i].val = tasks[i].val

Applied(op) == tasks # <<>> /\ tasks[1].op = op

C26_SameQuantizationInBothSearches ==
    Applied("num_from_q") => tasks[1].br = tasks[1].cq

\* C27: for each transform and every value v, inverse(calc(v)) is v
C27_TransformRoundTrip ==
    Applied("transform") => tasks[1].back = tasks[1].val * QScale

\* the assert! of vmaf_lerp_q, on the pair of attempts the controller passes
Asserted(worse, better) ==
    /\ worse.enc.vmaf <= args.min_vmaf
    /\ worse.enc.vmaf < better.enc.vmaf
    /\ worse.q < better.q

\* C28: whenever the controller calls vmaf_lerp_q the asserted precondition
\* holds, whatever the oracle answered: the nearest attempt below the current
\* q is not good enough, the nearest attempt above it is good enough, and
\* worse.q < better.q; the only abort of the search is the one of the clamp,
\* on a pair less than 2.0 of q apart
C28_LerpPreconditionHolds ==
    br_attempts # <<>> =>
        /\ LerpedFromLower =>
              /\ Asserted(br_attempts[TightestLower], LastAttempt)
              /\ br_attempts[TightestLower].enc.vmaf <= args.min_vmaf
        /\ LerpedFromUpper =>
              /\ Asserted(LastAttempt, br_attempts[TightestUpper])
              /\ br_attempts[TightestUpper].enc.vmaf > args.min_vmaf
        /\ result.kind = "panic" =>
              \/ LerpedFromLower
                 /\ LastAttempt.q - br_attempts[TightestLower].q < 2 * QScale
              \/ LerpedFromUpper
                 /\ br_attempts[TightestUpper].q - LastAttempt.q < 2 * QScale

\* C28 witness: the third or a later trial was set by an interpolation from an
\* upper bound, after answers that are not monotone in q
C28_Witness ==
    /\ Len(br_attempts) >= 3
    /\ LerpedFromUpper
    /\ pc = "await"
    /\ ~MonotoneHistory

\* C29: the oracle is never called twice with the same trial value
C29_NoTrialValueTwice ==
    \A i, j \in DOMAIN tasks : i # j => tasks[i].val # tasks[j].val

\* the q the oracle has been called at, in call order (the last one is the
\* sample's when its call is not yet in the history)
CalledQ(i) == IF i <= Len(br_attempts) THEN br_attempts[i].q ELSE sample.q

\* C30: every q the oracle is called at lies within [min_q, max_q] and
\* strictly between the nearest lower and nearest higher q called before it
\* (it is min_q or max_q when there is no lower or no higher one), so that no
\* q is called twice
C30_EveryQInsideTheBracket ==
    \A i \in DOMAIN tasks :
        LET q == CalledQ(i)
            lower == {CalledQ(j) : j \in 1..(i - 1)} \cap (0..(q - 1))
            higher == {CalledQ(j) : j \in 1..(i - 1)} \ (0..q)
        IN  /\ sample.min_q <= q /\ q <= sample.max_q
            /\ \A j \in 1..(i - 1) : CalledQ(j) # q
            /\ (i > 1 /\ lower = {}) => q = sample.min_q
            /\ (i > 1 /\ higher = {}) => q = sample.max_q

\* C30 witness: four or more calls, the last one strictly inside a bracket
C30_Witness ==
    /\ Len(tasks) >= 4
    /\ \E i, j \in 1..(Len(tasks) - 1) :
          CalledQ(i) < CalledQ(Len(tasks)) /\ CalledQ(Len(tasks)) < CalledQ(j)

====
